---- MODULE Spec2Model ----
\* Model of nuitka/codegen/FunctionCodes.py: the code generation of function
\* creation, direct function calls, generator/coroutine object creation and
\* the composition of function and generator bodies.
EXTENDS Integers, Sequences, FiniteSets, TLC

\* ------------------------------------------------------------------ bounds

\* Operations of one compilation unit that are followed.
MaxOps == 2

\* Longest arg_names list of a direct call.
MaxArgs == 2

\* ------------------------------------------------------------ names, inputs

\* A temp name is <<base_name, number>>; Python's None is NoName.
NoName == <<"None", 0>>

\* The temp name the caller allocated for the result of its n-th operation.
ResultName(n) == <<"to", n>>

\* A temp holding a borrowed value (a constant): never in the cleanup ledger.
BorrowedName == <<"const", 1>>

\* The function bodies of the compilation unit: code name (the callable
\* identity), closure variables, the generator flag, the function name and
\* qualified name, the doc string and the parameters.
FunctionBodies ==
    { [code_name |-> "f", closure_variables |-> << >>, is_generator |-> FALSE,
       function_name |-> "f", function_qualname |-> "f", doc |-> "None",
       parameters |-> << >>],
      [code_name |-> "g", closure_variables |-> <<"a", "b">>, is_generator |-> TRUE,
       function_name |-> "g", function_qualname |-> "outer.<locals>.g",
       doc |-> "doc of g", parameters |-> <<"x">>] }

\* The source references of statements are their line numbers; the context
\* holds None until one is set.
NoSourceRef == 0

SourceReferences == {1}

\* Utils.python_version of the build: a Python 2 and a Python 3.5.
PythonVersions == {270, 350}

CodeNames == { b.code_name : b \in FunctionBodies }

VARIABLES
    tmp_names,          \* context.tmp_names: base name -> last number given out
    cleanup_names,      \* context.cleanup_names[-1]: temps that need a release
    helper_codes,       \* context.helper_codes: identity -> maker code
    declaration_codes,  \* context.declaration_codes: identity -> declaration
    codes,              \* lines the last operation passed to emit
    helper_adds,        \* identity -> number of addHelperCode calls
    decl_adds,          \* identity -> number of addDeclaration calls
    call_log,           \* every MAKE_FUNCTION call site emitted so far
    requested,          \* identity -> number of function creation requests
    cleanup_log,        \* cleanup ledger events of the last operation
    op,                 \* the last operation and its inputs
    ops,                \* number of operations done
    python_version,     \* Utils.python_version
    source_ref,         \* context.current_source_ref: line number, 0 for None
    tasks,              \* parallel lowering: each task's position and locals
    allocations,        \* parallel lowering: the temp names handed out
    composed            \* the last composed body text and its inputs

ledger_vars == << tmp_names, cleanup_names, helper_codes, declaration_codes,
                  codes, helper_adds, decl_adds, call_log, requested, cleanup_log,
                  op, ops, python_version, source_ref >>

vars == << ledger_vars, tasks, allocations, composed >>

\* Rest at the value of an expression, which is computed once: what a local
\* variable of the code is.
With(value, Rest(_)) == CHOOSE result \in { Rest(v) : v \in {value} } : TRUE

\* One emitted line.
Line(kind, to, callee, args) ==
    [kind |-> kind, to |-> to, callee |-> callee, args |-> args]

\* --------------------------------------------------- the context (Ledger)
\* The context object threaded through an operation.

Context ==
    [tmp_names |-> tmp_names, cleanup_names |-> cleanup_names,
     helper_codes |-> helper_codes, declaration_codes |-> declaration_codes,
     codes |-> << >>, helper_adds |-> helper_adds, decl_adds |-> decl_adds,
     call_log |-> call_log, cleanup_log |-> << >>, source_ref |-> source_ref]

emit(c, line) == [c EXCEPT !.codes = Append(@, line)]

\* context.allocateTempName(base_name): the next number of that base name.
allocateTempName(c, base_name) ==
    LET number == c.tmp_names[base_name] + 1
    IN  [c |-> [c EXCEPT !.tmp_names[base_name] = number],
         name |-> <<base_name, number>>]

needsCleanup(c, tmp_name) == tmp_name \in c.cleanup_names

CleanupEvent(c, ev, tmp_name) ==
    [ev |-> ev, name |-> tmp_name, present |-> tmp_name \in c.cleanup_names,
     at |-> Len(c.codes)]

addCleanupTempName(c, tmp_name) ==
    [c EXCEPT !.cleanup_names = @ \cup {tmp_name},
              !.cleanup_log = Append(@, CleanupEvent(c, "add", tmp_name))]

removeCleanupTempName(c, tmp_name) ==
    [c EXCEPT !.cleanup_names = @ \ {tmp_name},
              !.cleanup_log = Append(@, CleanupEvent(c, "remove", tmp_name))]

hasHelperCode(c, key) == key \in DOMAIN c.helper_codes

\* The fragments are keyed by identity and append-only: one that is cached
\* under the key is never replaced nor derived again, so a registration for a
\* key that has a fragment leaves the cached text as it is. helper_adds counts
\* the registrations made, which is what "emitted at most once" is about.
addHelperCode(c, key, code) ==
    [c EXCEPT !.helper_codes = IF key \in DOMAIN @ THEN @ ELSE (key :> code) @@ @,
              !.helper_adds[key] = @ + 1]

\* As addHelperCode, for the declaration of the identity.
addDeclaration(c, key, code) ==
    [c EXCEPT !.declaration_codes =
                  IF key \in DOMAIN @ THEN @ ELSE (key :> code) @@ @,
              !.decl_adds[key] = @ + 1]


\* ------------------------------------------------ expression collaborators
\* What an optional expression of a function creation is: absent (None or
\* empty), an expression whose generated code leaves a new reference in its
\* temp (registered in the cleanup ledger), or a constant (a borrowed
\* reference, not registered).
Expressions == {"absent", "new_ref", "constant"}

\* CodeGeneration.generateExpressionCode: emits the code that fills to_name.
generateExpressionCode(c, to_name, expression) ==
    LET c1 == emit(c, Line("eval", to_name, "expression", << >>))
    IN  IF expression = "new_ref" THEN addCleanupTempName(c1, to_name) ELSE c1

\* TupleCodes.generateTupleCreationCode: a constant tuple is borrowed, a
\* tuple built at run time is a new reference.
generateTupleCreationCode(c, to_name, elements) ==
    LET c1 == emit(c, Line("eval", to_name, "tuple", << >>))
    IN  IF elements = "new_ref" THEN addCleanupTempName(c1, to_name) ELSE c1

\* ErrorCodes.getReleaseCode
getReleaseCode(c, release_name) ==
    IF needsCleanup(c, release_name)
    THEN removeCleanupTempName(
             emit(c, Line("Py_DECREF", release_name, "Py_DECREF", << >>)),
             release_name)
    ELSE c

\* PythonAPICodes.getReferenceExportCode
getReferenceExportCode(c, base_name) ==
    IF needsCleanup(c, base_name)
    THEN <<"ref", base_name>>
    ELSE <<"INCREASE_REFCOUNT", base_name>>

\* VariableCodes.getVariableCode / getVariableCodeName of a closure variable.
getVariableCode(variable) == <<"closure", <<variable, 0>> >>

getVariableCodeName(variable) == <<"PyCellObject *", variable>>

\* ConstantCodes.getConstantCode: the name of the constant in the C code.
getConstantCode(constant) == <<"const", constant>>

\* ModuleCodes.getModuleAccessCode: the module object of the compilation unit.
getModuleAccessCode == "module"

\* ParameterParsing.getParameterEntryPointIdentifier
getParameterEntryPointIdentifier(function_identifier) ==
    <<"fparse", function_identifier>>

\* ParameterParsing.getQuickEntryPointIdentifier: the fast-path entry point
\* that goes with the parameters.
getQuickEntryPointIdentifier(function_identifier, parameters) ==
    <<"dparse", function_identifier, parameters>>

\* context.getCodeObjectHandle: the code object that goes with the code name
\* and the flags.
getCodeObjectHandle(code_name, is_generator, has_closure) ==
    <<"codeobj", code_name, is_generator, has_closure>>

\* ---------------------------------------------------- function creation

getClosureVariableProvisionCode(closure_variables) ==
    [i \in 1..Len(closure_variables) |-> getVariableCode(closure_variables[i])]

\* Variant: the keyword defaults are listed before the defaults.
getFunctionCreationArgsKwFirst(defaults_name, kw_defaults_name, annotations_name, closure_variables) ==
    (IF kw_defaults_name # NoName THEN << <<"PyObject *", "kw_defaults">> >> ELSE << >>)
    \o (IF defaults_name # NoName THEN << <<"PyObject *", "defaults">> >> ELSE << >>)
    \o (IF annotations_name # NoName THEN << <<"PyObject *", "annotations">> >> ELSE << >>)
    \o [i \in 1..Len(closure_variables) |-> <<"PyCellObject *", closure_variables[i]>>]

getFunctionCreationArgs(defaults_name, kw_defaults_name, annotations_name, closure_variables) ==
    (IF defaults_name # NoName THEN << <<"PyObject *", "defaults">> >> ELSE << >>)
    \o (IF kw_defaults_name # NoName THEN << <<"PyObject *", "kw_defaults">> >> ELSE << >>)
    \o (IF annotations_name # NoName THEN << <<"PyObject *", "annotations">> >> ELSE << >>)
    \o [i \in 1..Len(closure_variables) |-> getVariableCodeName(closure_variables[i])]

getFunctionMakerDecl(function_identifier, defaults_name, kw_defaults_name, annotations_name, closure_variables) ==
    [template |-> "template_function_make_declaration",
     function_identifier |-> function_identifier,
     function_creation_arg_spec |->
         getFunctionCreationArgs(defaults_name, kw_defaults_name,
                                 annotations_name, closure_variables)]

\* The context_copy of the maker body: the allocation of the closure array,
\* then closure[i] = ...; Py_INCREF( closure[i] ); for each closure variable.
makerContextCopy(closure_variables) ==
    << <<"other", "PyCellObject **closure = (PyCellObject **)malloc( "
                  \o ToString(Len(closure_variables))
                  \o " * sizeof(PyCellObject *) );">> >>
    \o [k \in 1..(2 * Len(closure_variables)) |->
           IF k % 2 = 1
           THEN <<"closure[i] =", (k + 1) \div 2 - 1, closure_variables[(k + 1) \div 2]>>
           ELSE <<"Py_INCREF( closure[i] )", k \div 2 - 1, closure_variables[k \div 2]>>]

\* Variant: with a closure, the generator and function templates are swapped.
getFunctionMakerCodeSwapped(function_name, function_qualname, function_identifier, code_identifier, parameters, closure_variables, defaults_name, kw_defaults_name, annotations_name, function_doc, is_generator) ==
    [template |-> IF closure_variables # << >>
                  THEN IF is_generator
                       THEN "template_make_function_with_context_template"
                       ELSE "template_make_genfunc_with_context_template"
                  ELSE IF is_generator
                       THEN "template_make_genfunc_without_context_template"
                       ELSE "template_make_function_without_context_template",
     function_name_obj |-> getConstantCode(function_name),
     function_qualname_obj |-> "NULL",
     function_identifier |-> function_identifier,
     fparse_function_identifier |->
         getParameterEntryPointIdentifier(function_identifier),
     dparse_function_identifier |->
         getQuickEntryPointIdentifier(function_identifier, parameters),
     function_creation_args |->
         getFunctionCreationArgs(defaults_name, kw_defaults_name,
                                 annotations_name, closure_variables),
     code_identifier |-> code_identifier,
     context_copy |-> << >>,
     function_doc |-> getConstantCode(function_doc),
     module_identifier |-> getModuleAccessCode,
     closure_count |-> Len(closure_variables),
     defaults |-> "NULL", kw_defaults |-> "NULL", annotations |-> "const_dict_empty"]

getFunctionMakerCode(function_name, function_qualname, function_identifier, code_identifier, parameters, closure_variables, defaults_name, kw_defaults_name, annotations_name, function_doc, is_generator) ==
    LET function_creation_args ==
            getFunctionCreationArgs(defaults_name, kw_defaults_name,
                                    annotations_name, closure_variables)
        function_qualname_obj ==
            IF python_version < 330 \/ function_qualname = function_name
            THEN "NULL"
            ELSE getConstantCode(function_qualname)
        template ==
            IF closure_variables # << >>
            THEN IF is_generator
                 THEN "template_make_genfunc_with_context_template"
                 ELSE "template_make_function_with_context_template"
            ELSE IF is_generator
                 THEN "template_make_genfunc_without_context_template"
                 ELSE "template_make_function_without_context_template"
    IN  [template |-> template,
         function_name_obj |-> getConstantCode(function_name),
         function_qualname_obj |-> function_qualname_obj,
         function_identifier |-> function_identifier,
         fparse_function_identifier |->
             getParameterEntryPointIdentifier(function_identifier),
         dparse_function_identifier |->
             getQuickEntryPointIdentifier(function_identifier, parameters),
         function_creation_args |-> function_creation_args,
         code_identifier |-> code_identifier,
         context_copy |-> IF closure_variables # << >>
                          THEN makerContextCopy(closure_variables) ELSE << >>,
         function_doc |-> getConstantCode(function_doc),
         module_identifier |-> getModuleAccessCode,
         closure_count |-> Len(closure_variables),
         defaults |-> IF defaults_name # NoName THEN "defaults" ELSE "NULL",
         kw_defaults |-> IF kw_defaults_name # NoName THEN "kw_defaults" ELSE "NULL",
         annotations |-> IF annotations_name # NoName THEN "annotations" ELSE "const_dict_empty"]

\* Variant: the assertion on the keyword defaults is missing.
handleKwDefaultsUnchecked(c, kw_defaults) ==
    IF kw_defaults # "absent"
    THEN LET a == allocateTempName(c, "kw_defaults")
         IN  [c |-> generateExpressionCode(a.c, a.name, kw_defaults), name |-> a.name,
              raised |-> FALSE]
    ELSE [c |-> c, name |-> NoName, raised |-> FALSE]

\* raised: the assertion on a constant empty mapping failed, after the temp
\* name was allocated and before any code for the value was generated.
handleKwDefaults(c, kw_defaults) ==
    IF kw_defaults # "absent"
    THEN LET a == allocateTempName(c, "kw_defaults")
         IN  IF kw_defaults = "empty_constant"
             THEN [c |-> a.c, name |-> a.name, raised |-> TRUE]
             ELSE [c |-> generateExpressionCode(a.c, a.name, kw_defaults),
                   name |-> a.name, raised |-> FALSE]
    ELSE [c |-> c, name |-> NoName, raised |-> FALSE]

handleDefaults(c, defaults) ==
    IF defaults # "absent"
    THEN LET a == allocateTempName(c, "defaults")
         IN  [c |-> generateTupleCreationCode(a.c, a.name, defaults), name |-> a.name]
    ELSE [c |-> c, name |-> NoName]

handleAnnotations(c, annotations) ==
    IF annotations # "absent"
    THEN LET a == allocateTempName(c, "annotations")
         IN  [c |-> generateExpressionCode(a.c, a.name, annotations), name |-> a.name]
    ELSE [c |-> c, name |-> NoName]

\* The temps of a function creation, computed in the order defaults_first asks.
functionCreationTemps(c, defaults, kw_defaults, annotations, defaults_first) ==
    LET d1 == handleDefaults(c, defaults)
        k1 == handleKwDefaults(d1.c, kw_defaults)
        k2 == handleKwDefaults(c, kw_defaults)
        d2 == handleDefaults(k2.c, defaults)
        dk == IF defaults_first
              THEN [c |-> k1.c, defaults_name |-> d1.name, kw_defaults_name |-> k1.name]
              ELSE [c |-> d2.c, defaults_name |-> d2.name, kw_defaults_name |-> k2.name]
        a  == handleAnnotations(dk.c, annotations)
    IN  [c |-> a.c, defaults_name |-> dk.defaults_name,
         kw_defaults_name |-> dk.kw_defaults_name, annotations_name |-> a.name]

\* Variant: the maker code is made and registered on every request.
makerCodeEveryTime(c, function_body, defaults_name, kw_defaults_name, annotations_name) ==
    addDeclaration(
        addHelperCode(c, function_body.code_name,
                      [template |-> "any", function_identifier |-> function_body.code_name,
                       function_creation_args |-> << >>, context_copy |-> << >>,
                       closure_count |-> 0, defaults |-> "NULL",
                       kw_defaults |-> "NULL", annotations |-> "const_dict_empty"]),
        function_body.code_name,
        [template |-> "template_function_make_declaration",
         function_identifier |-> function_body.code_name,
         function_creation_arg_spec |-> << >>])

\* "Creation code needs to be done only once."
makerCodeOnce(c, function_body, defaults_name, kw_defaults_name, annotations_name) ==
    LET function_identifier == function_body.code_name
    IN  IF ~hasHelperCode(c, function_identifier)
        THEN LET code_identifier ==
                     getCodeObjectHandle(function_body.function_name,
                                         function_body.is_generator,
                                         function_body.closure_variables # << >>)
                 maker_code ==
                     getFunctionMakerCode(function_body.function_name,
                                          function_body.function_qualname,
                                          function_identifier, code_identifier,
                                          function_body.parameters,
                                          function_body.closure_variables,
                                          defaults_name, kw_defaults_name,
                                          annotations_name, function_body.doc,
                                          function_body.is_generator)
                 c1 == addHelperCode(c, function_identifier, maker_code)
                 function_decl ==
                     getFunctionMakerDecl(function_body.code_name,
                                          defaults_name, kw_defaults_name,
                                          annotations_name,
                                          function_body.closure_variables)
             IN  addDeclaration(c1, function_identifier, function_decl)
        ELSE c

\* Records a MAKE_FUNCTION call site with what the Ledger held when it was emitted.
CallSite(c, line, function_identifier) ==
    [identity |-> function_identifier,
     callee |-> line.callee,
     maker |-> function_identifier \in DOMAIN c.helper_codes,
     decl |-> function_identifier \in DOMAIN c.declaration_codes]

\* Variant: the annotations are not passed to the constructor.
getFunctionCreationCodeNoAnnotations(c, to_name, function_identifier, defaults_name, kw_defaults_name, annotations_name, closure_variables) ==
    LET args ==
            (IF defaults_name # NoName
             THEN << getReferenceExportCode(c, defaults_name) >> ELSE << >>)
            \o (IF kw_defaults_name # NoName
                THEN << <<"ref", kw_defaults_name>> >> ELSE << >>)
            \o getClosureVariableProvisionCode(closure_variables)
        line == Line("MAKE_FUNCTION", to_name,
                     <<"MAKE_FUNCTION", function_identifier>>, args)
        c1 == [emit(c, line)
                  EXCEPT !.call_log = Append(@, CallSite(c, line, function_identifier))]
        c2 == IF needsCleanup(c1, defaults_name)
              THEN removeCleanupTempName(c1, defaults_name) ELSE c1
        c3 == IF needsCleanup(c2, kw_defaults_name)
              THEN removeCleanupTempName(c2, kw_defaults_name) ELSE c2
    IN  addCleanupTempName(c3, to_name)

getFunctionCreationCode(c, to_name, function_identifier, defaults_name, kw_defaults_name, annotations_name, closure_variables) ==
    LET args ==
            (IF defaults_name # NoName
             THEN << getReferenceExportCode(c, defaults_name) >> ELSE << >>)
            \o (IF kw_defaults_name # NoName
                THEN << <<"ref", kw_defaults_name>> >> ELSE << >>)
            \o (IF annotations_name # NoName
                THEN << <<"ref", annotations_name>> >> ELSE << >>)
            \o getClosureVariableProvisionCode(closure_variables)
        line == Line("MAKE_FUNCTION", to_name,
                     <<"MAKE_FUNCTION", function_identifier>>, args)
        c1 == [emit(c, line)
                  EXCEPT !.call_log = Append(@, CallSite(c, line, function_identifier))]
        c2 == IF needsCleanup(c1, defaults_name)
              THEN removeCleanupTempName(c1, defaults_name) ELSE c1
        c3 == IF needsCleanup(c2, kw_defaults_name)
              THEN removeCleanupTempName(c2, kw_defaults_name) ELSE c2
    IN  addCleanupTempName(c3, to_name)

\* Variant: the annotations are released before the call is emitted.
functionCreationReleaseFirst(c, to_name, function_body, defaults, kw_defaults, annotations, defaults_first) ==
    LET t  == functionCreationTemps(c, defaults, kw_defaults, annotations,
                                    defaults_first)
        c1 == makerCodeOnce(t.c, function_body, t.defaults_name,
                            t.kw_defaults_name, t.annotations_name)
        c2 == getReleaseCode(c1, t.annotations_name)
    IN  [c |-> getFunctionCreationCode(c2, to_name, function_body.code_name,
                                       t.defaults_name, t.kw_defaults_name,
                                       t.annotations_name,
                                       function_body.closure_variables),
         consumed |-> << t.defaults_name, t.kw_defaults_name, t.annotations_name >>,
         entry |-> t.c.cleanup_names]

\* Variant: the call is emitted before the maker code is registered.
functionCreationCallFirst(c, to_name, function_body, defaults, kw_defaults, annotations, defaults_first) ==
    LET t  == functionCreationTemps(c, defaults, kw_defaults, annotations,
                                    defaults_first)
        c1 == getFunctionCreationCode(t.c, to_name, function_body.code_name,
                                      t.defaults_name, t.kw_defaults_name,
                                      t.annotations_name,
                                      function_body.closure_variables)
        c2 == makerCodeOnce(c1, function_body, t.defaults_name,
                            t.kw_defaults_name, t.annotations_name)
    IN  [c |-> getReleaseCode(c2, t.annotations_name),
         consumed |-> << t.defaults_name, t.kw_defaults_name, t.annotations_name >>,
         entry |-> t.c.cleanup_names]

\* The whole of generateFunctionCreationCode, from the context c it is given.
functionCreation(c, to_name, function_body, defaults, kw_defaults, annotations, defaults_first) ==
    With(functionCreationTemps(c, defaults, kw_defaults, annotations,
                               defaults_first), LAMBDA t :
    With(makerCodeOnce(t.c, function_body, t.defaults_name,
                       t.kw_defaults_name, t.annotations_name), LAMBDA c1 :
    With(getFunctionCreationCode(c1, to_name, function_body.code_name,
                                 t.defaults_name, t.kw_defaults_name,
                                 t.annotations_name,
                                 function_body.closure_variables), LAMBDA c2 :
        [c |-> getReleaseCode(c2, t.annotations_name),
         consumed |-> << t.defaults_name, t.kw_defaults_name, t.annotations_name >>,
         entry |-> t.c.cleanup_names])))


\* -------------------------------------------------------- direct calls

\* ParameterParsing.getDirectFunctionEntryPointIdentifier
getDirectFunctionEntryPointIdentifier(function_identifier) ==
    <<"impl", function_identifier>>

\* ErrorCodes.getErrorExitCode: the check is emitted only when needed.
getErrorExitCode(c, check_name, needs_check) ==
    IF needs_check
    THEN emit(c, Line("error_exit", check_name, "if == NULL goto exit", << >>))
    ELSE c

\* Variant: no reference is taken for an argument that is not in the ledger.
RECURSIVE argumentReferencesNoIncref(_, _)
argumentReferencesNoIncref(c, arg_names) ==
    IF arg_names = << >>
    THEN c
    ELSE argumentReferencesNoIncref(
             IF needsCleanup(c, Head(arg_names))
             THEN removeCleanupTempName(c, Head(arg_names)) ELSE c,
             Tail(arg_names))

\* for arg_name in arg_names: hand over the reference or take a new one.
RECURSIVE argumentReferences(_, _)
argumentReferences(c, arg_names) ==
    IF arg_names = << >>
    THEN c
    ELSE LET arg_name == Head(arg_names)
             c1 == IF needsCleanup(c, arg_name)
                   THEN removeCleanupTempName(c, arg_name)
                   ELSE emit(c, Line("Py_INCREF", arg_name, "Py_INCREF", << >>))
         IN  argumentReferences(c1, Tail(arg_names))

\* Variant: the arguments are removed from the ledger without asking
\* whether they are still in it.
RECURSIVE argumentsOwnedByCalledUnasked(_, _)
argumentsOwnedByCalledUnasked(c, arg_names) ==
    IF arg_names = << >>
    THEN c
    ELSE argumentsOwnedByCalledUnasked(removeCleanupTempName(c, Head(arg_names)),
                                       Tail(arg_names))

\* "Arguments are owned to the called in direct function call."
RECURSIVE argumentsOwnedByCalled(_, _)
argumentsOwnedByCalled(c, arg_names) ==
    IF arg_names = << >>
    THEN c
    ELSE LET arg_name == Head(arg_names)
             c1 == IF needsCleanup(c, arg_name)
                   THEN removeCleanupTempName(c, arg_name)
                   ELSE c
         IN  argumentsOwnedByCalled(c1, Tail(arg_names))

\* Variant: the closure arguments are passed before the explicit arguments.
directFunctionCallClosureFirst(c, to_name, function_identifier, arg_names, closure_variables, needs_check) ==
    LET entry_point == getDirectFunctionEntryPointIdentifier(function_identifier)
        suffix_args == getClosureVariableProvisionCode(closure_variables)
        c1 == argumentReferences(c, arg_names)
        c2 == emit(c1, Line("direct_call", to_name, entry_point,
                            suffix_args
                            \o [i \in 1..Len(arg_names) |-> <<"ref", arg_names[i]>>]))
        c3 == argumentsOwnedByCalled(c2, arg_names)
        c4 == getErrorExitCode(c3, to_name, needs_check)
    IN  addCleanupTempName(c4, to_name)

\* Variant: the result is put into the cleanup ledger before the error check.
directFunctionCallRegisterFirst(c, to_name, function_identifier, arg_names, closure_variables, needs_check) ==
    LET entry_point == getDirectFunctionEntryPointIdentifier(function_identifier)
        suffix_args == getClosureVariableProvisionCode(closure_variables)
        c1 == argumentReferences(c, arg_names)
        c2 == emit(c1, Line("direct_call", to_name, entry_point,
                            [i \in 1..Len(arg_names) |-> <<"ref", arg_names[i]>>]
                            \o suffix_args))
        c3 == argumentsOwnedByCalled(c2, arg_names)
        c4 == addCleanupTempName(c3, to_name)
    IN  getErrorExitCode(c4, to_name, needs_check)

directFunctionCall(c, to_name, function_identifier, arg_names, closure_variables, needs_check) ==
    LET entry_point == getDirectFunctionEntryPointIdentifier(function_identifier)
        suffix_args == getClosureVariableProvisionCode(closure_variables)
        c1 == argumentReferences(c, arg_names)
        c2 == emit(c1, Line("direct_call", to_name, entry_point,
                            [i \in 1..Len(arg_names) |-> <<"ref", arg_names[i]>>]
                            \o suffix_args))
        c3 == argumentsOwnedByCalled(c2, arg_names)
        c4 == getErrorExitCode(c3, to_name, needs_check)
    IN  addCleanupTempName(c4, to_name)

\* ----------------------------------------- generator and coroutine objects

\* The closure[i] = ...; Py_INCREF( closure[i] ); lines of a generator object.
generatorClosureCopy(closure_variables) ==
    [k \in 1..(2 * Len(closure_variables)) |->
        IF k % 2 = 1
        THEN <<"closure[i] =", (k + 1) \div 2 - 1, closure_variables[(k + 1) \div 2]>>
        ELSE <<"Py_INCREF( closure[i] )", k \div 2 - 1, closure_variables[k \div 2]>>]

makeGeneratorObject(c, to_name, generator_object_body) ==
    LET closure_variables == generator_object_body.closure_variables
        generator_name == generator_object_body.function_name
        generator_qualname == generator_object_body.function_qualname
        generator_qualname_obj ==
            IF python_version < 330 \/ generator_qualname = generator_name
            THEN "NULL"
            ELSE getConstantCode(generator_qualname)
        names ==
            [generator_name_obj |-> getConstantCode(generator_name),
             generator_qualname_obj |-> generator_qualname_obj,
             code_identifier |->
                 getCodeObjectHandle(generator_name, TRUE,
                                     Len(closure_variables) > 0)]
        c1 == IF closure_variables # << >>
              THEN emit(c, Line("template_generator_making_with_context", to_name,
                                <<"generator", generator_object_body.code_name>>,
                                generatorClosureCopy(closure_variables))
                           @@ names)
              ELSE emit(c, Line("template_generator_making_without_context", to_name,
                                <<"generator", generator_object_body.code_name>>,
                                << >>)
                           @@ names)
    IN  addCleanupTempName(c1, to_name)

\* The statements of a coroutine body that reach the shared context: those
\* creating a function, each with the request its lowering makes.
CreationStatements ==
    { [function_body |-> function_body, defaults |-> "absent",
       kw_defaults |-> "absent", annotations |-> "absent", defaults_first |-> TRUE] :
        function_body \in FunctionBodies }

\* coroutine_body.getBody(): the statement sequences followed.
StatementSequences == { << >> } \cup { << s >> : s \in CreationStatements }

\* Contexts.PythonFunctionCoroutineContext(parent, function): the temp names,
\* the cleanup ledger and the source reference are the coroutine's own; helper
\* codes and declarations are the parent's.
PythonFunctionCoroutineContext(parent) ==
    [parent EXCEPT !.tmp_names = [b \in DOMAIN @ |-> 0],
                   !.cleanup_names = {},
                   !.codes = << >>,
                   !.cleanup_log = << >>,
                   !.source_ref = NoSourceRef]

\* What a context made with parent = c has left in c.
parentContext(c, child) ==
    [c EXCEPT !.helper_codes = child.helper_codes,
              !.declaration_codes = child.declaration_codes,
              !.helper_adds = child.helper_adds,
              !.decl_adds = child.decl_adds,
              !.call_log = child.call_log]

\* CodeGeneration.generateStatementSequenceCode: each statement that creates
\* a function gets a temp of the context for it and goes through
\* generateFunctionCreationCode.
generateStatementSequenceCode(c, statement_sequence) ==
    LET after[count \in 0..Len(statement_sequence)] ==
            IF count = 0
            THEN c
            ELSE With(after[count - 1], LAMBDA before :
                 With(statement_sequence[count], LAMBDA statement :
                     functionCreation(before, <<"assign_source", count>>,
                                      statement.function_body, statement.defaults,
                                      statement.kw_defaults, statement.annotations,
                                      statement.defaults_first).c))
    IN  after[Len(statement_sequence)]

\* The body is lowered into function_codes, a collector of its own, in a
\* context whose parent is c; then the creation is emitted.
coroutineCreation(c, to_name, coroutine_body, statement_sequence) ==
    LET closure_variables == coroutine_body.closure_variables
        code_identifier == coroutine_body.code_name
        coroutine_context == PythonFunctionCoroutineContext(c)
    IN  With(generateStatementSequenceCode(coroutine_context, statement_sequence),
             LAMBDA lowered :
        With(parentContext(c, lowered), LAMBDA c1 :
            IF closure_variables # << >>
            THEN emit(c1, Line("template_make_coroutine_with_context_template",
                               to_name, <<"coroutine", code_identifier>>, << >>))
            ELSE emit(c1, Line("template_make_coroutine_without_context_template",
                               to_name, <<"coroutine", code_identifier>>, << >>))))

\* ------------------------------------------------------- generator entry

\* context.setCurrentSourceCodeReference
setCurrentSourceCodeReference(c, value) == [c EXCEPT !.source_ref = value]

\* context.getExceptionEscape: the exception exit of the frame; nothing here
\* moves it.
getExceptionEscape(c) == "frame_exception_exit"

\* LineNumberCodes.getErrorLineNumberUpdateCode: the line of the current
\* source reference is what an error is attributed to.
getErrorLineNumberUpdateCode(c) == <<"set_error_line_number", c.source_ref>>

\* The statements of a generator entry: what they have is a source reference.
EntryStatements == { [source_ref |-> n] : n \in SourceReferences }

\* template_generator_initial_throw with frame_exception_exit as the callee
\* and set_error_line_number as the argument of the line.
generatorEntry(c, statement) ==
    LET c1 == setCurrentSourceCodeReference(c, statement.source_ref)
    IN  emit(c1, Line("template_generator_initial_throw", NoName,
                      getExceptionEscape(c1),
                      << getErrorLineNumberUpdateCode(c1) >>))

\* ------------------------------------------------------------- operations

\* The inputs of an operation that are not names.
Inputs(defaults, kw_defaults, annotations, defaults_first, needs_check) ==
    [defaults |-> defaults, kw_defaults |-> kw_defaults,
     annotations |-> annotations, defaults_first |-> defaults_first,
     needs_check |-> needs_check]

NoInputs == Inputs("absent", "absent", "absent", FALSE, FALSE)

\* The last operation: its name and inputs, the temp names it consumed, the
\* cleanup ledger when it began to consume them, and whether the identity
\* had maker code before it.
OpRecord(name, to_name, body, inputs, consumed, entry) ==
    [name |-> name, to_name |-> to_name, body |-> body, inputs |-> inputs,
     consumed |-> consumed, entry |-> entry,
     had_helper |-> body.code_name \in DOMAIN helper_codes]

NoBody ==
    [code_name |-> "none", closure_variables |-> << >>, is_generator |-> FALSE,
     function_name |-> "none", function_qualname |-> "none", doc |-> "None",
     parameters |-> << >>]

Commit(context) ==
    /\ \E c \in {context} :
        /\ tmp_names' = c.tmp_names
        /\ cleanup_names' = c.cleanup_names
        /\ helper_codes' = c.helper_codes
        /\ declaration_codes' = c.declaration_codes
        /\ codes' = c.codes
        /\ helper_adds' = c.helper_adds
        /\ decl_adds' = c.decl_adds
        /\ call_log' = c.call_log
        /\ cleanup_log' = c.cleanup_log
        /\ source_ref' = c.source_ref
    /\ ops' = ops + 1
    /\ UNCHANGED << python_version, tasks, allocations, composed >>

\* Temp names a caller can pass as arguments: earlier results and a constant.
ArgNames == { ResultName(n) : n \in 1..ops } \cup { BorrowedName }

ArgLists == UNION { [1..n -> ArgNames] : n \in 0..MaxArgs }

\* The kw_defaults expressions: a constant reference to the empty mapping too.
KwDefaultsExpressions == Expressions \cup {"empty_constant"}

\* An AssertionError ends the compilation.
Aborted == op.name \in {"AssertionError needsCreation", "AssertionError kw_defaults"}

\* The context where handleKwDefaults() raises: after handleDefaults() when
\* the defaults come first.
functionCreationRaised(c, defaults, kw_defaults, defaults_first) ==
    LET d == IF defaults_first THEN handleDefaults(c, defaults).c ELSE c
    IN  handleKwDefaults(d, kw_defaults)

generateFunctionCreationCode(function_body, needs_creation, defaults, kw_defaults, annotations, defaults_first) ==
    /\ ops < MaxOps
    /\ ~Aborted
    /\ LET to_name == ResultName(ops + 1)
           k == functionCreationRaised(Context, defaults, kw_defaults, defaults_first)
           r == functionCreation(Context, to_name, function_body, defaults,
                                 kw_defaults, annotations, defaults_first)
       IN  IF ~needs_creation
           THEN /\ Commit(Context)
                /\ UNCHANGED requested
                /\ op' = OpRecord("AssertionError needsCreation", to_name,
                                  function_body, NoInputs, << >>, cleanup_names)
           ELSE IF k.raised
           THEN /\ Commit(k.c)
                /\ UNCHANGED requested
                /\ op' = OpRecord("AssertionError kw_defaults", to_name,
                                  function_body,
                                  Inputs(defaults, kw_defaults, "absent",
                                         defaults_first, FALSE),
                                  << >>, cleanup_names)
           ELSE \E done \in {r} :
                /\ Commit(done.c)
                /\ requested' = [requested EXCEPT ![function_body.code_name] = @ + 1]
                /\ op' = OpRecord("generateFunctionCreationCode", to_name,
                                  function_body,
                                  Inputs(defaults, kw_defaults, annotations,
                                         defaults_first, FALSE),
                                  done.consumed, done.entry)

getDirectFunctionCallCode(function_body, arg_names, needs_check) ==
    /\ ops < MaxOps
    /\ ~Aborted
    /\ LET to_name == ResultName(ops + 1)
       IN  /\ Commit(directFunctionCall(Context, to_name, function_body.code_name,
                                        arg_names, function_body.closure_variables,
                                        needs_check))
           /\ UNCHANGED requested
           /\ op' = OpRecord("getDirectFunctionCallCode", to_name, function_body,
                             Inputs("absent", "absent", "absent", FALSE, needs_check),
                             arg_names, cleanup_names)

generateMakeGeneratorObjectCode(generator_object_body) ==
    /\ ops < MaxOps
    /\ ~Aborted
    /\ LET to_name == ResultName(ops + 1)
       IN  /\ Commit(makeGeneratorObject(Context, to_name, generator_object_body))
           /\ UNCHANGED requested
           /\ op' = OpRecord("generateMakeGeneratorObjectCode", to_name,
                             generator_object_body, NoInputs, << >>, cleanup_names)

\* statement_sequence is coroutine_body.getBody().
generateCoroutineCreationCode(coroutine_body, statement_sequence) ==
    /\ ops < MaxOps
    /\ ~Aborted
    /\ LET to_name == ResultName(ops + 1)
       IN  /\ Commit(coroutineCreation(Context, to_name, coroutine_body,
                                       statement_sequence))
           /\ requested' =
                  [id \in CodeNames |->
                      requested[id]
                      + Cardinality({ i \in DOMAIN statement_sequence :
                                        statement_sequence[i].function_body.code_name = id })]
           /\ op' = OpRecord("generateCoroutineCreationCode", to_name,
                             coroutine_body, NoInputs, << >>, cleanup_names)

generateGeneratorEntryCode(statement) ==
    /\ ops < MaxOps
    /\ ~Aborted
    /\ Commit(generatorEntry(Context, statement))
    /\ UNCHANGED requested
    /\ op' = OpRecord("generateGeneratorEntryCode", NoName, NoBody, NoInputs,
                      << >>, cleanup_names)

InitLedger ==
    /\ tmp_names = [b \in {"defaults", "kw_defaults", "annotations"} |-> 0]
    /\ cleanup_names = {}
    /\ helper_codes = << >>
    /\ declaration_codes = << >>
    /\ codes = << >>
    /\ helper_adds = [i \in CodeNames |-> 0]
    /\ decl_adds = [i \in CodeNames |-> 0]
    /\ call_log = << >>
    /\ requested = [i \in CodeNames |-> 0]
    /\ cleanup_log = << >>
    /\ op = [name |-> "none", to_name |-> NoName, body |-> NoBody,
             inputs |-> NoInputs, consumed |-> << >>, entry |-> {},
             had_helper |-> FALSE]
    /\ ops = 0
    /\ python_version \in PythonVersions
    /\ source_ref = NoSourceRef

Init ==
    /\ InitLedger
    /\ tasks = << >>
    /\ allocations = << >>
    /\ composed = << >>

Next ==
    \/ \E function_body \in FunctionBodies,
          defaults \in Expressions, kw_defaults \in KwDefaultsExpressions,
          annotations \in Expressions, defaults_first \in BOOLEAN :
          generateFunctionCreationCode(function_body, TRUE, defaults,
                                       kw_defaults, annotations, defaults_first)
    \/ \E function_body \in FunctionBodies :
          \* rejected before any other input is looked at
          generateFunctionCreationCode(function_body, FALSE, "absent", "absent",
                                       "absent", FALSE)
    \/ \E function_body \in FunctionBodies, arg_names \in ArgLists,
          needs_check \in BOOLEAN :
          getDirectFunctionCallCode(function_body, arg_names, needs_check)
    \/ \E generator_object_body \in FunctionBodies :
          generateMakeGeneratorObjectCode(generator_object_body)
    \/ \E coroutine_body \in FunctionBodies,
          statement_sequence \in StatementSequences :
          generateCoroutineCreationCode(coroutine_body, statement_sequence)
    \/ \E statement \in EntryStatements :
          generateGeneratorEntryCode(statement)

Spec == Init /\ [][Next]_vars

\* ------------------------------------------------------- parallel lowering
\* Several tasks run generateFunctionCreationCode against one context. Each
\* step below is one critical section of the mutex of the compilation unit:
\* one Ledger operation (allocateTempName, hasHelperCode, addHelperCode,
\* addDeclaration) with the task's own work that follows it.

Tasks == {"t1", "t2"}

TaskResultName(t) == IF t = "t1" THEN ResultName(1) ELSE ResultName(2)

\* The requests a task can be given.
TaskInputs ==
    { Inputs(defaults, kw_defaults, annotations, defaults_first, FALSE) :
        defaults \in {"absent", "new_ref"}, kw_defaults \in {"absent", "new_ref"},
        annotations \in {"absent", "new_ref"}, defaults_first \in BOOLEAN }

IdleTask ==
    [pc |-> "idle", body |-> NoBody, inputs |-> NoInputs,
     defaults_name |-> NoName, kw_defaults_name |-> NoName,
     annotations_name |-> NoName, codes |-> << >>]

\* The shared context as task t sees it, with the task's own emit.
TaskContext(t) == [Context EXCEPT !.codes = tasks[t].codes]

\* The shared part of the context goes back to the Ledger, the emitted lines
\* to the task.
TaskCommit(t, c, task) ==
    /\ tmp_names' = c.tmp_names
    /\ cleanup_names' = c.cleanup_names
    /\ helper_codes' = c.helper_codes
    /\ declaration_codes' = c.declaration_codes
    /\ helper_adds' = c.helper_adds
    /\ decl_adds' = c.decl_adds
    /\ call_log' = c.call_log
    /\ tasks' = [tasks EXCEPT ![t] = [task EXCEPT !.codes = c.codes]]
    /\ UNCHANGED << codes, requested, cleanup_log, op, ops, python_version,
                    source_ref, composed >>

Allocated(names) == SelectSeq(names, LAMBDA n : n # NoName)

\* A task is handed its request.
taskBegin(t, function_body, inputs) ==
    /\ tasks[t].pc = "idle"
    /\ tasks' = [tasks EXCEPT ![t] = [IdleTask EXCEPT !.pc = "first",
                                                     !.body = function_body,
                                                     !.inputs = inputs]]
    /\ UNCHANGED << ledger_vars, allocations, composed >>

\* handleDefaults() or handleKwDefaults(), whichever defaults_first puts first.
taskFirstTemp(t) ==
    /\ tasks[t].pc = "first"
    /\ LET task == tasks[t]
           r == IF task.inputs.defaults_first
                THEN handleDefaults(TaskContext(t), task.inputs.defaults)
                ELSE handleKwDefaults(TaskContext(t), task.inputs.kw_defaults)
       IN  /\ TaskCommit(t, r.c,
                  IF task.inputs.defaults_first
                  THEN [task EXCEPT !.pc = "second", !.defaults_name = r.name]
                  ELSE [task EXCEPT !.pc = "second", !.kw_defaults_name = r.name])
           /\ allocations' = allocations \o Allocated(<< r.name >>)

\* The other one of handleDefaults() and handleKwDefaults().
taskSecondTemp(t) ==
    /\ tasks[t].pc = "second"
    /\ LET task == tasks[t]
           r == IF task.inputs.defaults_first
                THEN handleKwDefaults(TaskContext(t), task.inputs.kw_defaults)
                ELSE handleDefaults(TaskContext(t), task.inputs.defaults)
       IN  /\ TaskCommit(t, r.c,
                  IF task.inputs.defaults_first
                  THEN [task EXCEPT !.pc = "annotations", !.kw_defaults_name = r.name]
                  ELSE [task EXCEPT !.pc = "annotations", !.defaults_name = r.name])
           /\ allocations' = allocations \o Allocated(<< r.name >>)

taskAnnotations(t) ==
    /\ tasks[t].pc = "annotations"
    /\ LET task == tasks[t]
           r == handleAnnotations(TaskContext(t), task.inputs.annotations)
       IN  /\ TaskCommit(t, r.c,
                  [task EXCEPT !.pc = "check", !.annotations_name = r.name])
           /\ allocations' = allocations \o Allocated(<< r.name >>)

\* if not context.hasHelperCode(function_identifier):
taskHasHelperCode(t) ==
    /\ tasks[t].pc = "check"
    /\ tasks' = [tasks EXCEPT ![t].pc =
                      IF hasHelperCode(Context, tasks[t].body.code_name)
                      THEN "call" ELSE "register"]
    /\ UNCHANGED << ledger_vars, allocations, composed >>

\* maker_code = getFunctionMakerCode(...); context.addHelperCode(...)
taskAddHelperCode(t) ==
    /\ tasks[t].pc = "register"
    /\ LET task == tasks[t]
           maker_code ==
               getFunctionMakerCode(task.body.function_name,
                                    task.body.function_qualname,
                                    task.body.code_name,
                                    getCodeObjectHandle(
                                        task.body.function_name,
                                        task.body.is_generator,
                                        task.body.closure_variables # << >>),
                                    task.body.parameters,
                                    task.body.closure_variables,
                                    task.defaults_name, task.kw_defaults_name,
                                    task.annotations_name, task.body.doc,
                                    task.body.is_generator)
       IN  TaskCommit(t, addHelperCode(TaskContext(t), task.body.code_name, maker_code),
                      [task EXCEPT !.pc = "declare"])
    /\ UNCHANGED allocations

\* function_decl = getFunctionMakerDecl(...); context.addDeclaration(...)
taskAddDeclaration(t) ==
    /\ tasks[t].pc = "declare"
    /\ LET task == tasks[t]
           function_decl ==
               getFunctionMakerDecl(task.body.code_name, task.defaults_name,
                                    task.kw_defaults_name, task.annotations_name,
                                    task.body.closure_variables)
       IN  TaskCommit(t, addDeclaration(TaskContext(t), task.body.code_name,
                                        function_decl),
                      [task EXCEPT !.pc = "call"])
    /\ UNCHANGED allocations

\* getFunctionCreationCode(...); getReleaseCode(annotations_name)
taskCreationCode(t) ==
    /\ tasks[t].pc = "call"
    /\ LET task == tasks[t]
           c1 == getFunctionCreationCode(TaskContext(t), TaskResultName(t),
                                         task.body.code_name, task.defaults_name,
                                         task.kw_defaults_name, task.annotations_name,
                                         task.body.closure_variables)
       IN  TaskCommit(t, getReleaseCode(c1, task.annotations_name),
                      [task EXCEPT !.pc = "done"])
    /\ UNCHANGED allocations

InitPar ==
    /\ InitLedger
    /\ tasks = [t \in Tasks |-> IdleTask]
    /\ allocations = << >>
    /\ composed = << >>

NextPar ==
    \/ \E t \in Tasks, function_body \in FunctionBodies, inputs \in TaskInputs :
          taskBegin(t, function_body, inputs)
    \/ \E t \in Tasks : taskFirstTemp(t)
    \/ \E t \in Tasks : taskSecondTemp(t)
    \/ \E t \in Tasks : taskAnnotations(t)
    \/ \E t \in Tasks : taskHasHelperCode(t)
    \/ \E t \in Tasks : taskAddHelperCode(t)
    \/ \E t \in Tasks : taskAddDeclaration(t)
    \/ \E t \in Tasks : taskCreationCode(t)

SpecPar == InitPar /\ [][NextPar]_vars


\* ------------------------------------------------- function body composition
\* Generated text is a sequence of lines, each with its indentation level.

TextLine(text) == [indent |-> 0, text |-> text]

\* Indentation.indented: every line one level deeper.
indented(lines) == [i \in DOMAIN lines |-> [lines[i] EXCEPT !.indent = @ + 1]]

\* ErrorCodes.getMustNotGetHereCode
getMustNotGetHereCode(reason) ==
    << TextLine("NUITKA_CANNOT_GET_HERE"), TextLine(reason), TextLine("return NULL;") >>

\* templates.CodeTemplatesFunction.template_function_exception_exit
template_function_exception_exit(function_cleanup) ==
    << TextLine("function_exception_exit:") >>
    \o function_cleanup
    \o << TextLine("assert( exception_type );"),
          TextLine("RESTORE_ERROR_OCCURRED( exception_type, exception_value, exception_tb );"),
          TextLine("return NULL;") >>

\* templates.CodeTemplatesFunction.template_function_return_exit
template_function_return_exit(function_cleanup) ==
    << TextLine("function_return_exit:"),
       TextLine("CHECK_OBJECT( tmp_return_value );") >>
    \o function_cleanup
    \o << TextLine("return tmp_return_value;") >>

\* templates.CodeTemplatesFunction.function_dict_setup
function_dict_setup ==
    << TextLine("PyObject *locals_dict = PyDict_New();") >>

\* templates.CodeTemplatesGeneratorFunction.template_generator_exception_exit
template_generator_exception_exit ==
    << TextLine("RESTORE_ERROR_OCCURRED( PyExc_StopIteration, NULL, NULL );"),
       TextLine("generator->m_yielded = NULL;"),
       TextLine("swapFiber( &generator->m_yielder_context, &generator->m_caller_context );"),
       TextLine("function_exception_exit:"),
       TextLine("RESTORE_ERROR_OCCURRED( exception_type, exception_value, exception_tb );"),
       TextLine("generator->m_yielded = NULL;"),
       TextLine("swapFiber( &generator->m_yielder_context, &generator->m_caller_context );") >>

\* templates.CodeTemplatesGeneratorFunction.template_generator_noexception_exit
template_generator_noexception_exit ==
    << TextLine("NUITKA_CANNOT_GET_HERE"),
       TextLine("generator->m_yielded = NULL;"),
       TextLine("swapFiber( &generator->m_yielder_context, &generator->m_caller_context );") >>

\* templates.CodeTemplatesGeneratorFunction.template_generator_return_exit
template_generator_return_exit ==
    << TextLine("function_return_exit:"),
       TextLine("RESTORE_ERROR_OCCURRED( PyExc_StopIteration, tmp_return_value, NULL );"),
       TextLine("generator->m_yielded = NULL;"),
       TextLine("swapFiber( &generator->m_yielder_context, &generator->m_caller_context );") >>

\* What the composers ask of the function context.
FunctionContexts ==
    [has_locals_dict : BOOLEAN, has_return_value : BOOLEAN,
     has_generator_return : BOOLEAN,
     for_direct_call : BOOLEAN, for_created_function : BOOLEAN]

\* The callables that are composed: parameters and closure variables are
\* variables with a name and whether they are shared technically.
Variable(name, shared) == [name |-> name, shared |-> shared]

ComposedBodies ==
    { [code_name |-> "f", parameters |-> << >>, closure_variables |-> << >>],
      [code_name |-> "g",
       parameters |-> << Variable("p", TRUE), Variable("q", FALSE) >>,
       closure_variables |-> << Variable("a", TRUE), Variable("b", FALSE) >>],
      [code_name |-> "h",
       parameters |-> << Variable("p", FALSE) >>,
       closure_variables |-> << Variable("a", FALSE) >>] }

\* ParameterParsing.getParameterParsingCode: the parameter variables, the
\* parameter parsing entry point and the parameter declarations.
getParameterParsingCode(function_identifier, parameters, needs_creation) ==
    [parameter_variables |-> parameters,
     entry_point_code |->
         << TextLine("static PyObject *fparse_function"), TextLine(function_identifier) >>,
     parameter_objects_decl |->
         [i \in 1..Len(parameters) |-> <<"PyObject *_python_par_", parameters[i].name>>]]

\* VariableCodes.getLocalVariableInitCode with init_from "_python_par_<name>".
getLocalVariableInitCode(variable) ==
    TextLine((IF variable.shared THEN "PyObjectSharedLocalVariable par_"
                                 ELSE "PyObjectLocalVariable par_")
             \o variable.name \o "( _python_par_" \o variable.name \o " );")

getFunctionDirectClosureArgs(closure_variables) ==
    [i \in 1..Len(closure_variables) |->
        IF closure_variables[i].shared
        THEN <<"PyCellObject *", closure_variables[i].name>>
        ELSE <<"PyObject *&", closure_variables[i].name>>]

\* Variant: the return exit is appended only inside the exception exit branch.
functionExitNested(context, needs_exception_exit) ==
    LET function_cleanup ==
            IF context.has_locals_dict
            THEN << TextLine("Py_DECREF( locals_dict );") >> ELSE << >>
        guard == indented(getMustNotGetHereCode("Return statement must have exited already."))
                 \o << TextLine("") >>
    IN  IF needs_exception_exit
        THEN guard \o template_function_exception_exit(function_cleanup)
             \o (IF context.has_return_value
                 THEN indented(template_function_return_exit(indented(function_cleanup)))
                 ELSE << >>)
        ELSE guard

\* The exit section of getFunctionCode.
functionExit(context, needs_exception_exit) ==
    LET function_cleanup ==
            IF context.has_locals_dict
            THEN << TextLine("Py_DECREF( locals_dict );") >> ELSE << >>
        guard == indented(getMustNotGetHereCode("Return statement must have exited already."))
                 \o << TextLine("") >>
        exception_exit ==
            IF needs_exception_exit
            THEN template_function_exception_exit(function_cleanup) ELSE << >>
        return_exit ==
            IF context.has_return_value
            THEN indented(template_function_return_exit(indented(function_cleanup)))
            ELSE << >>
    IN  guard \o exception_exit \o return_exit

\* Variant: the entry point code is appended whatever the context is for.
functionCodeEntryPointAlways(context, function_body, function_codes, needs_exception_exit) ==
    LET parsing == getParameterParsingCode(function_body.code_name,
                                           function_body.parameters,
                                           context.for_created_function)
        function_parameter_decl ==
            [i \in 1..Len(parsing.parameter_variables) |->
                getLocalVariableInitCode(parsing.parameter_variables[i])]
        local_var_inits ==
            IF context.has_return_value
            THEN << TextLine("tmp_return_value = NULL;") >> ELSE << >>
        function_locals ==
            (IF context.has_locals_dict THEN function_dict_setup ELSE << >>)
            \o function_parameter_decl \o local_var_inits
        function_exit == functionExit(context, needs_exception_exit)
    IN  [template |-> IF context.for_direct_call
                      THEN "function_direct_body_template"
                      ELSE "template_function_body",
         function_identifier |-> function_body.code_name,
         parameter_objects_decl |->
             IF context.for_direct_call
             THEN parsing.parameter_objects_decl
                  \o getFunctionDirectClosureArgs(function_body.closure_variables)
             ELSE parsing.parameter_objects_decl,
         function_locals |-> indented(function_locals),
         function_body |-> indented(function_codes),
         function_exit |-> function_exit,
         entry_point_code |-> parsing.entry_point_code]

functionCode(context, function_body, function_codes, needs_exception_exit) ==
    LET parsing == getParameterParsingCode(function_body.code_name,
                                           function_body.parameters,
                                           context.for_created_function)
        function_parameter_decl ==
            [i \in 1..Len(parsing.parameter_variables) |->
                getLocalVariableInitCode(parsing.parameter_variables[i])]
        local_var_inits ==
            IF context.has_return_value
            THEN << TextLine("tmp_return_value = NULL;") >> ELSE << >>
        function_locals ==
            (IF context.has_locals_dict THEN function_dict_setup ELSE << >>)
            \o function_parameter_decl \o local_var_inits
        function_exit == functionExit(context, needs_exception_exit)
    IN  [template |-> IF context.for_direct_call
                      THEN "function_direct_body_template"
                      ELSE "template_function_body",
         function_identifier |-> function_body.code_name,
         parameter_objects_decl |->
             IF context.for_direct_call
             THEN parsing.parameter_objects_decl
                  \o getFunctionDirectClosureArgs(function_body.closure_variables)
             ELSE parsing.parameter_objects_decl,
         function_locals |-> indented(function_locals),
         function_body |-> indented(function_codes),
         function_exit |-> function_exit,
         entry_point_code |->
             IF context.for_created_function THEN parsing.entry_point_code ELSE << >>]

\* The exit of the generator body in getGeneratorFunctionCode.
generatorFunctionExit(needs_exception_exit, needs_generator_return) ==
    (IF needs_exception_exit
     THEN template_generator_exception_exit
     ELSE template_generator_noexception_exit)
    \o (IF needs_generator_return THEN template_generator_return_exit ELSE << >>)

\* Variant: the return exit is appended only after the exception exit.
generatorObjectExitNested(needs_exception_exit, needs_generator_return) ==
    IF needs_exception_exit
    THEN template_generator_exception_exit
         \o (IF needs_generator_return THEN template_generator_return_exit ELSE << >>)
    ELSE template_generator_noexception_exit

\* The exit of the generator body in getGeneratorObjectCode.
generatorObjectExit(needs_exception_exit, needs_generator_return) ==
    (IF needs_exception_exit
     THEN template_generator_exception_exit
     ELSE template_generator_noexception_exit)
    \o (IF needs_generator_return THEN template_generator_return_exit ELSE << >>)

\* The local declarations of a generator body.
generatorLocals(context) ==
    (IF context.has_locals_dict THEN function_dict_setup ELSE << >>)
    \o (IF context.has_generator_return
        THEN << TextLine("tmp_generator_return = false;") >> ELSE << >>)
    \o (IF context.has_return_value
        THEN << TextLine("tmp_return_value = NULL;") >> ELSE << >>)

\* The parameter array of the generator object to be created.
\* Variant: every slot is taken from the first parameter variable.
generatorParameterCopyFromFirst(parameter_variables) ==
    [i \in 1..Len(parameter_variables) |->
        IF parameter_variables[i].shared
        THEN TextLine("parameters[" \o ToString(i - 1)
                      \o "] = (PyObject *)PyCell_NEW1( _python_par_"
                      \o parameter_variables[1].name \o " );")
        ELSE TextLine("parameters[" \o ToString(i - 1) \o "] = _python_par_"
                      \o parameter_variables[1].name \o ";")]

generatorParameterCopy(parameter_variables) ==
    [i \in 1..Len(parameter_variables) |->
        IF parameter_variables[i].shared
        THEN TextLine("parameters[" \o ToString(i - 1)
                      \o "] = (PyObject *)PyCell_NEW1( _python_par_"
                      \o parameter_variables[i].name \o " );")
        ELSE TextLine("parameters[" \o ToString(i - 1) \o "] = _python_par_"
                      \o parameter_variables[i].name \o ";")]

generatorParametersDecl(parameter_variables) ==
    IF Len(parameter_variables) > 0
    THEN [template |-> "template_genfunc_generator_with_parameters",
          copy |-> indented(generatorParameterCopy(parameter_variables)),
          count |-> Len(parameter_variables)]
    ELSE [template |-> "template_genfunc_generator_no_parameters",
          copy |-> << >>, count |-> 0]

\* The capture array of the generator object to be created.
generatorOwnClosureCopy(closure_variables) ==
    [k \in 1..(2 * Len(closure_variables)) |->
        IF k % 2 = 1
        THEN TextLine("closure[" \o ToString((k + 1) \div 2 - 1) \o "] = "
                      \o closure_variables[(k + 1) \div 2].name \o ";")
        ELSE TextLine("Py_INCREF( closure[" \o ToString(k \div 2 - 1) \o "] );")]

\* Variant: the own closure declaration is used whatever the context is for.
generatorClosureDeclOwnAlways(context, closure_variables) ==
    IF Len(closure_variables) > 0
    THEN IF TRUE
         THEN [template |-> "template_genfunc_generator_with_own_closure",
               copy |-> generatorOwnClosureCopy(closure_variables),
               count |-> Len(closure_variables)]
         ELSE [template |-> "template_genfunc_generator_with_parent_closure",
               copy |-> << >>, count |-> Len(closure_variables)]
    ELSE [template |-> "template_genfunc_generator_no_closure",
          copy |-> << >>, count |-> 0]

generatorClosureDecl(context, closure_variables) ==
    IF Len(closure_variables) > 0
    THEN IF context.for_direct_call
         THEN [template |-> "template_genfunc_generator_with_own_closure",
               copy |-> generatorOwnClosureCopy(closure_variables),
               count |-> Len(closure_variables)]
         ELSE [template |-> "template_genfunc_generator_with_parent_closure",
               copy |-> << >>, count |-> Len(closure_variables)]
    ELSE [template |-> "template_genfunc_generator_no_closure",
          copy |-> << >>, count |-> 0]

\* The generator body (template_genfunc_yielder_body_template) and the
\* function that creates the generator object.
generatorFunctionCode(context, function_body, function_codes, needs_exception_exit, needs_generator_return) ==
    LET parsing == getParameterParsingCode(function_body.code_name,
                                           function_body.parameters,
                                           context.for_created_function)
        closure_variables == function_body.closure_variables
    IN  [template |-> "template_genfunc_yielder_body_template",
         function_identifier |-> function_body.code_name,
         function_body |-> indented(function_codes),
         function_var_inits |-> indented(generatorLocals(context)),
         generator_exit |-> generatorFunctionExit(needs_exception_exit,
                                                  needs_generator_return),
         parameter_objects_decl |->
             IF context.for_direct_call
             THEN parsing.parameter_objects_decl
                  \o [i \in 1..Len(closure_variables) |->
                         <<"PyCellObject *", closure_variables[i].name>>]
             ELSE parsing.parameter_objects_decl,
         parameter_decl |-> generatorParametersDecl(parsing.parameter_variables),
         closure_decl |-> generatorClosureDecl(context, closure_variables),
         entry_point_code |->
             IF context.for_created_function THEN parsing.entry_point_code ELSE << >>]

generatorObjectCode(context, function_identifier, function_codes, needs_exception_exit, needs_generator_return) ==
    [template |-> "template_genfunc_yielder_body_template",
     function_identifier |-> function_identifier,
     function_body |-> indented(function_codes),
     function_var_inits |-> indented(generatorLocals(context)),
     generator_exit |-> generatorObjectExit(needs_exception_exit,
                                            needs_generator_return)]

\* The rendered statements of a body.
FunctionCodes == { << >>, << TextLine("return_statement;") >> }

\* The composers are pure: a behaviour composes one callable.
Composed(fn, context, function_body, needs_exception_exit, needs_generator_return, result) ==
    [fn |-> fn, context |-> context, body |-> function_body,
     needs_exception_exit |-> needs_exception_exit,
     needs_generator_return |-> needs_generator_return, result |-> result]

getFunctionCode(context, function_body, function_codes, needs_exception_exit) ==
    /\ composed = << >>
    /\ composed' = << Composed("getFunctionCode", context, function_body,
                               needs_exception_exit, FALSE,
                               functionCode(context, function_body, function_codes,
                                            needs_exception_exit)) >>
    /\ UNCHANGED << ledger_vars, tasks, allocations >>

getGeneratorFunctionCode(context, function_body, function_codes, needs_exception_exit, needs_generator_return) ==
    /\ composed = << >>
    /\ composed' = << Composed("getGeneratorFunctionCode", context, function_body,
                               needs_exception_exit, needs_generator_return,
                               generatorFunctionCode(context, function_body,
                                                     function_codes,
                                                     needs_exception_exit,
                                                     needs_generator_return)) >>
    /\ UNCHANGED << ledger_vars, tasks, allocations >>

getGeneratorObjectCode(context, function_body, function_codes, needs_exception_exit, needs_generator_return) ==
    /\ composed = << >>
    /\ composed' = << Composed("getGeneratorObjectCode", context, function_body,
                               needs_exception_exit, needs_generator_return,
                               generatorObjectCode(context,
                                                   function_body.code_name,
                                                   function_codes,
                                                   needs_exception_exit,
                                                   needs_generator_return)) >>
    /\ UNCHANGED << ledger_vars, tasks, allocations >>

\* --------------------------------------------------- forward declarations

getExportScopeCode(cross_module) ==
    IF cross_module THEN "NUITKA_CROSS_MODULE" ELSE "NUITKA_LOCAL_MODULE"

getFunctionDirectDecl(function_identifier, closure_variables, parameter_variables, file_scope) ==
    [template |-> "template_function_direct_declaration",
     file_scope |-> file_scope,
     function_identifier |-> function_identifier,
     direct_call_arg_spec |->
         [i \in 1..Len(parameter_variables) |->
             <<"PyObject *_python_par_", parameter_variables[i].name>>]
         \o getFunctionDirectClosureArgs(closure_variables)]

\* What generateFunctionDeclCode asks of a function body, besides its code
\* name, parameters and closure variables.
DeclBodies ==
    { [body |-> b, is_generator_object_body |-> g, needs_direct_call |-> d,
       cross_module |-> x] :
        b \in ComposedBodies, g \in BOOLEAN, d \in BOOLEAN, x \in BOOLEAN }

NoDecl ==
    [template |-> "None", file_scope |-> "", function_identifier |-> "",
     direct_call_arg_spec |-> << >>]

functionDecl(function_body) ==
    IF function_body.is_generator_object_body
    THEN [template |-> "template_genfunc_yielder_decl_template",
          file_scope |-> "",
          function_identifier |-> function_body.body.code_name,
          direct_call_arg_spec |-> << >>]
    ELSE IF function_body.needs_direct_call
         THEN getFunctionDirectDecl(function_body.body.code_name,
                                    function_body.body.closure_variables,
                                    function_body.body.parameters,
                                    getExportScopeCode(function_body.cross_module))
         ELSE NoDecl

generateFunctionDeclCode(function_body) ==
    /\ composed = << >>
    /\ composed' = << [fn |-> "generateFunctionDeclCode",
                       function_body |-> function_body,
                       result |-> functionDecl(function_body)] >>
    /\ UNCHANGED << ledger_vars, tasks, allocations >>

NextCompose ==
    \/ \E context \in FunctionContexts, function_body \in ComposedBodies,
          function_codes \in FunctionCodes, needs_exception_exit \in BOOLEAN :
          getFunctionCode(context, function_body, function_codes,
                          needs_exception_exit)
    \/ \E context \in FunctionContexts, function_body \in ComposedBodies,
          function_codes \in FunctionCodes, needs_exception_exit \in BOOLEAN,
          needs_generator_return \in BOOLEAN :
          getGeneratorFunctionCode(context, function_body, function_codes,
                                   needs_exception_exit, needs_generator_return)
    \/ \E context \in FunctionContexts, function_body \in ComposedBodies,
          function_codes \in FunctionCodes, needs_exception_exit \in BOOLEAN,
          needs_generator_return \in BOOLEAN :
          getGeneratorObjectCode(context, function_body, function_codes,
                                 needs_exception_exit, needs_generator_return)
    \/ \E function_body \in DeclBodies : generateFunctionDeclCode(function_body)

SpecCompose == Init /\ [][NextCompose]_vars

\* ------------------------------------------------------------- properties

IsCreation == op.name = "generateFunctionCreationCode"

IsDirectCall == op.name = "getDirectFunctionCallCode"

\* The temp names the last operation consumed.
ConsumedNames == { op.consumed[i] : i \in DOMAIN op.consumed } \ { NoName }

\* Positions of arg_names (or of the consumed temps) that hold the name.
Occurrences(name) == { i \in DOMAIN op.consumed : op.consumed[i] = name }

\* The removals of a name from the cleanup ledger in the last operation.
Removes(name) ==
    { i \in DOMAIN cleanup_log :
        cleanup_log[i].ev = "remove" /\ cleanup_log[i].name = name }

\* The emitted lines of one kind.
LinesOf(kind) == { i \in DOMAIN codes : codes[i].kind = kind }

\* C1: each identity requested N >= 1 times has its maker code and its
\* declaration registered exactly once, each of the N requests emitted a call
\* of MAKE_FUNCTION_<identity>, and the identities with maker code are the
\* identities with a declaration.
SingleEmission ==
    /\ DOMAIN helper_codes = DOMAIN declaration_codes
    /\ \A id \in CodeNames :
        /\ helper_adds[id] = (IF requested[id] >= 1 THEN 1 ELSE 0)
        /\ decl_adds[id] = (IF requested[id] >= 1 THEN 1 ELSE 0)
        /\ (id \in DOMAIN helper_codes) <=> (requested[id] >= 1)
        /\ Cardinality({ i \in DOMAIN call_log : call_log[i].identity = id })
               = requested[id]
        /\ \A i \in DOMAIN call_log :
               call_log[i].identity = id
                   => call_log[i].callee = <<"MAKE_FUNCTION", id>>
    /\ IsCreation =>
           \E i \in DOMAIN codes :
               /\ codes[i].kind = "MAKE_FUNCTION"
               /\ codes[i].callee = <<"MAKE_FUNCTION", op.body.code_name>>
               /\ codes[i].to = op.to_name

\* An identity requested twice, registered once.
SingleEmissionWitness ==
    \E id \in CodeNames : requested[id] >= 2 /\ helper_adds[id] = 1

\* C2: in generateFunctionCreationCode and getDirectFunctionCallCode no name
\* is removed from the cleanup ledger when it is not in it, every consumed
\* temp that was in the ledger at entry is removed exactly once, and no
\* consumed temp is in the ledger at exit.
CleanupLedgerBalance ==
    (IsCreation \/ IsDirectCall) =>
        /\ \A i \in DOMAIN cleanup_log :
               cleanup_log[i].ev = "remove" => cleanup_log[i].present
        /\ \A name \in ConsumedNames :
               /\ name \notin cleanup_names
               /\ name \in op.entry => Cardinality(Removes(name)) = 1

\* A direct call that consumed a temp of the ledger and one outside of it.
CleanupLedgerBalanceWitness ==
    /\ IsDirectCall
    /\ \E name \in ConsumedNames : name \in op.entry
    /\ \E name \in ConsumedNames : name \notin op.entry

\* C3: in getDirectFunctionCallCode, before the call line, each position of
\* arg_names either took its temp out of the cleanup ledger or emitted a
\* Py_INCREF of it: per temp, removals plus increments equal its positions.
DirectCallReferences ==
    IsDirectCall =>
        /\ Cardinality(LinesOf("direct_call")) = 1
        /\ LET call == CHOOSE i \in LinesOf("direct_call") : TRUE
               transferred(name) ==
                   { i \in Removes(name) :
                       cleanup_log[i].at < call /\ cleanup_log[i].present }
               incremented(name) ==
                   { i \in LinesOf("Py_INCREF") : i < call /\ codes[i].to = name }
           IN  /\ \A name \in ConsumedNames :
                      Cardinality(transferred(name)) + Cardinality(incremented(name))
                          = Cardinality(Occurrences(name))
               /\ \A i \in 1..(call - 1) :
                      codes[i].kind = "Py_INCREF" /\ codes[i].to \in ConsumedNames
               /\ codes[call].args
                      = [i \in 1..Len(op.consumed) |-> <<"ref", op.consumed[i]>>]
                        \o getClosureVariableProvisionCode(op.body.closure_variables)

\* A direct call that passes one temp of the ledger at two positions.
DirectCallReferencesWitness ==
    /\ IsDirectCall
    /\ Len(op.consumed) = 2
    /\ op.consumed[1] = op.consumed[2]
    /\ op.consumed[1] \in op.entry

\* C4: after generateFunctionCreationCode the defaults and kw_defaults temps
\* are not in the cleanup ledger and were not released; the annotations temp
\* is released only after the MAKE_FUNCTION line, and is released when it
\* was in the ledger.
ConstructorOwnership ==
    IsCreation =>
        /\ Cardinality(LinesOf("MAKE_FUNCTION")) = 1
        /\ LET call == CHOOSE i \in LinesOf("MAKE_FUNCTION") : TRUE
               defaults_name == op.consumed[1]
               kw_defaults_name == op.consumed[2]
               annotations_name == op.consumed[3]
           IN  /\ defaults_name \notin cleanup_names
               /\ kw_defaults_name \notin cleanup_names
               /\ annotations_name \notin cleanup_names
               /\ \A i \in LinesOf("Py_DECREF") :
                      codes[i].to = annotations_name /\ i > call
               /\ annotations_name \in op.entry =>
                      Cardinality(LinesOf("Py_DECREF")) = 1

\* A function creation whose three temps were all in the cleanup ledger.
ConstructorOwnershipWitness ==
    /\ IsCreation
    /\ \A i \in 1..3 : op.consumed[i] # NoName /\ op.consumed[i] \in op.entry

\* The argument list the claim gives for a request.
ExpectedCreationArgs(inputs, closure_variables) ==
    (IF inputs.defaults # "absent" THEN << <<"PyObject *", "defaults">> >> ELSE << >>)
    \o (IF inputs.kw_defaults # "absent"
        THEN << <<"PyObject *", "kw_defaults">> >> ELSE << >>)
    \o (IF inputs.annotations # "absent"
        THEN << <<"PyObject *", "annotations">> >> ELSE << >>)
    \o [i \in 1..Len(closure_variables) |-> <<"PyCellObject *", closure_variables[i]>>]

Present(expression) == IF expression # "absent" THEN 1 ELSE 0

\* C5: the declaration and the maker signature a request registers list
\* defaults, kw_defaults, annotations (those present) and then one
\* PyCellObject parameter per closure variable, in that order; defaults_first
\* changes only the order in which the two values are computed.
ConstructorArity ==
    IsCreation =>
        /\ ~op.had_helper =>
               LET id == op.body.code_name
                   expected == ExpectedCreationArgs(op.inputs, op.body.closure_variables)
               IN  /\ declaration_codes[id].function_creation_arg_spec = expected
                   /\ helper_codes[id].function_creation_args = expected
                   /\ Len(declaration_codes[id].function_creation_arg_spec)
                          = Present(op.inputs.defaults) + Present(op.inputs.kw_defaults)
                            + Present(op.inputs.annotations)
                            + Len(op.body.closure_variables)
        /\ (op.inputs.defaults # "absent" /\ op.inputs.kw_defaults # "absent") =>
               \E i, j \in LinesOf("eval") :
                   /\ codes[i].to = op.consumed[1]
                   /\ codes[j].to = op.consumed[2]
                   /\ (i < j) <=> op.inputs.defaults_first

\* A first request with everything present, kw_defaults computed first.
ConstructorArityWitness ==
    /\ IsCreation
    /\ ~op.had_helper
    /\ op.inputs.defaults # "absent"
    /\ op.inputs.kw_defaults # "absent"
    /\ op.inputs.annotations # "absent"
    /\ ~op.inputs.defaults_first
    /\ op.body.closure_variables # << >>

\* C7: when a MAKE_FUNCTION_<identity> call line was emitted, the maker code
\* and the declaration of that identity were already registered.
ConstructorBeforeCallSite ==
    \A i \in DOMAIN call_log : call_log[i].maker /\ call_log[i].decl

\* The call site of the request that registered the maker code.
ConstructorBeforeCallSiteWitness ==
    /\ IsCreation
    /\ ~op.had_helper
    /\ \E i \in DOMAIN call_log : call_log[i].identity = op.body.code_name

\* The maker template the claim gives for the flags.
ExpectedMakerTemplate(has_closure, is_generator) ==
    IF has_closure
    THEN IF is_generator
         THEN "template_make_genfunc_with_context_template"
         ELSE "template_make_function_with_context_template"
    ELSE IF is_generator
         THEN "template_make_genfunc_without_context_template"
         ELSE "template_make_function_without_context_template"

BodyOf(id) == CHOOSE b \in FunctionBodies : b.code_name = id

\* C10: the maker template is the with-context one iff there are closure
\* variables and the generator one iff is_generator; coroutine and generator
\* object creation choose with or without context by the same test; the
\* choice depends on the flags only, not on the Ledger.
TemplateSelection ==
    /\ \A id \in DOMAIN helper_codes :
           helper_codes[id].template
               = ExpectedMakerTemplate(BodyOf(id).closure_variables # << >>,
                                       BodyOf(id).is_generator)
    /\ \A closure_variables \in { << >>, <<"a">>, <<"a", "b">> },
          is_generator \in BOOLEAN, defaults_name \in { NoName, <<"defaults", 1>> } :
           getFunctionMakerCode("f", "f", "f", <<"codeobj", "f">>, << >>,
                                closure_variables, defaults_name, NoName,
                                NoName, "None", is_generator).template
               = ExpectedMakerTemplate(closure_variables # << >>, is_generator)
    /\ op.name = "generateCoroutineCreationCode" =>
           /\ Len(codes) = 1
           /\ codes[1].kind
                  = (IF op.body.closure_variables # << >>
                     THEN "template_make_coroutine_with_context_template"
                     ELSE "template_make_coroutine_without_context_template")
    /\ op.name = "generateMakeGeneratorObjectCode" =>
           /\ Len(codes) = 1
           /\ codes[1].kind
                  = (IF op.body.closure_variables # << >>
                     THEN "template_generator_making_with_context"
                     ELSE "template_generator_making_without_context")

\* Maker code of an identity with closure variables, and then a coroutine
\* created without any while the Ledger holds that maker code.
TemplateSelectionWitness ==
    /\ op.name = "generateCoroutineCreationCode"
    /\ op.body.closure_variables = << >>
    /\ \E id \in DOMAIN helper_codes : BodyOf(id).closure_variables # << >>

\* The maker code and the declaration of each identity are registered at most
\* once.
RegisteredAtMostOnce ==
    \A id \in CodeNames : helper_adds[id] <= 1 /\ decl_adds[id] <= 1

\* No two allocations return the same temp name.
TempNamesDistinct ==
    \A i, j \in DOMAIN allocations : i # j => allocations[i] # allocations[j]

\* C6: with every Ledger operation under the mutex of the compilation unit, in
\* every interleaving of the tasks, two tasks that request the same identity
\* included, the maker code and the declaration of each identity are
\* registered at most once and no two allocations return the same temp name.
\* It does not hold: line 341 asks hasHelperCode in one critical section and
\* lines 385 and 395 register in later ones, so two tasks can both be told
\* that the identity has no maker code and both register it.
ParallelLowering ==
    /\ RegisteredAtMostOnce
    /\ TempNamesDistinct

\* Text helpers for the composition properties.
Contains(lines, block) ==
    \E i \in 1..(Len(lines) - Len(block) + 1) :
        SubSeq(lines, i, i + Len(block) - 1) = block

EndsWith(lines, block) ==
    /\ Len(block) <= Len(lines)
    /\ SubSeq(lines, Len(lines) - Len(block) + 1, Len(lines)) = block

StartsWith(lines, block) ==
    /\ Len(block) <= Len(lines)
    /\ SubSeq(lines, 1, Len(block)) = block

Positions(lines, text) == { i \in DOMAIN lines : lines[i].text = text }

GeneratorComposers == {"getGeneratorFunctionCode", "getGeneratorObjectCode"}

FlagPairs == BOOLEAN \X BOOLEAN

\* C8: in getGeneratorFunctionCode and getGeneratorObjectCode the exit of the
\* generator body holds the exception exit iff needs_exception_exit and the
\* no-exception exit iff not, as its first block; it holds the generator
\* return exit iff needs_generator_return, appended after the first block;
\* the four flag combinations give four distinct exits, and both functions
\* give the same exit for the same flags.
SuspensionExitComposition ==
    /\ \A p, q \in FlagPairs :
          /\ generatorFunctionExit(p[1], p[2]) = generatorObjectExit(p[1], p[2])
          /\ p # q => /\ generatorFunctionExit(p[1], p[2]) # generatorFunctionExit(q[1], q[2])
                      /\ generatorObjectExit(p[1], p[2]) # generatorObjectExit(q[1], q[2])
    /\ \A k \in DOMAIN composed :
          composed[k].fn \in GeneratorComposers =>
              LET exit == composed[k].result.generator_exit
                  e == composed[k].needs_exception_exit
                  r == composed[k].needs_generator_return
                  first == IF e THEN template_generator_exception_exit
                                ELSE template_generator_noexception_exit
              IN  /\ StartsWith(exit, template_generator_exception_exit) <=> e
                  /\ StartsWith(exit, template_generator_noexception_exit) <=> ~e
                  /\ Contains(exit, template_generator_exception_exit) <=> e
                  /\ Contains(exit, template_generator_noexception_exit) <=> ~e
                  /\ Contains(exit, template_generator_return_exit) <=> r
                  /\ r => exit = first \o template_generator_return_exit
                  /\ ~r => exit = first
                  /\ exit = generatorFunctionExit(e, r)
                  /\ exit = generatorObjectExit(e, r)

SuspensionExitCompositionWitness ==
    \E k \in DOMAIN composed :
        /\ composed[k].fn = "getGeneratorObjectCode"
        /\ ~composed[k].needs_exception_exit
        /\ composed[k].needs_generator_return
        /\ EndsWith(composed[k].result.generator_exit, template_generator_return_exit)

\* The lines of an exit block: from its label up to its return statement.
ExitBlock(exit, label, last) ==
    LET from == CHOOSE i \in Positions(exit, label) : TRUE
        to == CHOOSE j \in Positions(exit, last) : j > from
    IN  SubSeq(exit, from, to)

CleanupLines(lines) == Cardinality(Positions(lines, "Py_DECREF( locals_dict );"))

\* C9: the exit section built by getFunctionCode always starts with the
\* "must not get here" guard, which is what the body falls through into: no
\* label precedes it, it ends in a return, and every exit block comes after
\* it behind its own label. The exception exit is present iff
\* needs_exception_exit, the return exit iff the context has the
\* "return_value" temp name, and each present exit block releases the locals
\* dict once iff the context has a locals dict.
FunctionExitComposition ==
    \A k \in DOMAIN composed :
        composed[k].fn = "getFunctionCode" =>
            LET exit == composed[k].result.function_exit
                context == composed[k].context
                guard == indented(getMustNotGetHereCode(
                                      "Return statement must have exited already."))
                exc == Positions(exit, "function_exception_exit:")
                ret == Positions(exit, "function_return_exit:")
            IN  /\ StartsWith(exit, guard)
                /\ Cardinality(Positions(exit, "NUITKA_CANNOT_GET_HERE")) = 1
                /\ guard[Len(guard)].text = "return NULL;"
                /\ \A i \in exc \cup ret : i > Len(guard)
                /\ Cardinality(exc) = (IF composed[k].needs_exception_exit THEN 1 ELSE 0)
                /\ Cardinality(ret) = (IF context.has_return_value THEN 1 ELSE 0)
                /\ \A i \in exc, j \in ret : i < j
                /\ exc # {} =>
                      /\ ExitBlock(exit, "function_exception_exit:", "return NULL;")
                             = template_function_exception_exit(
                                   IF context.has_locals_dict
                                   THEN << TextLine("Py_DECREF( locals_dict );") >>
                                   ELSE << >>)
                      /\ CleanupLines(ExitBlock(exit, "function_exception_exit:", "return NULL;"))
                             = (IF context.has_locals_dict THEN 1 ELSE 0)
                /\ ret # {} =>
                      CleanupLines(ExitBlock(exit, "function_return_exit:", "return tmp_return_value;"))
                          = (IF context.has_locals_dict THEN 1 ELSE 0)
                /\ CleanupLines(exit)
                      = (IF context.has_locals_dict
                         THEN Cardinality(exc) + Cardinality(ret) ELSE 0)

FunctionExitCompositionWitness ==
    \E k \in DOMAIN composed :
        /\ composed[k].fn = "getFunctionCode"
        /\ ~composed[k].needs_exception_exit
        /\ composed[k].context.has_return_value
        /\ composed[k].context.has_locals_dict
        /\ Positions(composed[k].result.function_exit, "function_return_exit:") # {}
        /\ CleanupLines(composed[k].result.function_exit) = 1

\* C11: getFunctionCode gives the direct call shape iff the context is for a
\* direct call and the generic entry shape otherwise; a direct call shaped
\* result is never followed by the parameter parsing entry point, and every
\* generic entry shaped result carries it, whatever the context answers to
\* isForDirectCall and isForCreatedFunction.
EntryShapeAndTrampoline ==
    \A k \in DOMAIN composed :
        composed[k].fn = "getFunctionCode" =>
            LET result == composed[k].result
                direct == result.template = "function_direct_body_template"
            IN  /\ direct <=> composed[k].context.for_direct_call
                /\ ~direct <=> result.template = "template_function_body"
                /\ direct => result.entry_point_code = << >>
                /\ ~direct => result.entry_point_code # << >>

\* C11 as amended: getFunctionCode gives the direct call shape iff the context
\* is for a direct call and the generic entry shape otherwise, and appends the
\* parameter parsing entry point iff the context is for a created function;
\* so with a context that is for exactly one of the two, the entry point
\* follows the generic entry shape only and every generic entry shape has it.
EntryShapeByContext ==
    \A k \in DOMAIN composed :
        composed[k].fn = "getFunctionCode" =>
            LET result == composed[k].result
                context == composed[k].context
                direct == result.template = "function_direct_body_template"
                entry == getParameterParsingCode(composed[k].body.code_name,
                                                 composed[k].body.parameters,
                                                 context.for_created_function).entry_point_code
            IN  /\ direct <=> context.for_direct_call
                /\ ~direct <=> result.template = "template_function_body"
                /\ context.for_created_function => result.entry_point_code = entry
                /\ ~context.for_created_function => result.entry_point_code = << >>
                /\ entry # << >>
                /\ context.for_created_function # context.for_direct_call =>
                      (direct <=> result.entry_point_code = << >>)

EntryShapeByContextWitness ==
    \E k \in DOMAIN composed :
        /\ composed[k].fn = "getFunctionCode"
        /\ composed[k].context.for_created_function
        /\ ~composed[k].context.for_direct_call
        /\ composed[k].result.template = "template_function_body"
        /\ composed[k].result.entry_point_code # << >>

\* The parameter variables a called function with n parameters can have.
ParameterLists(n) == [1..n -> { Variable("p", TRUE), Variable("q", FALSE) }]

\* C12: the call line of getDirectFunctionCallCode passes the explicit
\* arguments in arg_names order and then one closure argument per closure
\* variable in closure variable order; the signature of getFunctionDirectDecl
\* lists the parameters and then the closure parameters in the same orders,
\* so for a call with as many arguments as parameters position i of the call
\* is position i of the signature.
DirectCallArgumentOrder ==
    IsDirectCall =>
        /\ Cardinality(LinesOf("direct_call")) = 1
        /\ LET call == codes[CHOOSE i \in LinesOf("direct_call") : TRUE]
               arg_names == op.consumed
               closure_variables == op.body.closure_variables
               n == Len(arg_names)
               m == Len(closure_variables)
           IN  /\ Len(call.args) = n + m
               /\ \A i \in 1..n : call.args[i] = <<"ref", arg_names[i]>>
               /\ \A j \in 1..m :
                      call.args[n + j] = getVariableCode(closure_variables[j])
               /\ \A parameter_variables \in ParameterLists(n),
                     shared \in [1..m -> BOOLEAN] :
                      LET spec == getFunctionDirectDecl(
                                      op.body.code_name,
                                      [j \in 1..m |-> Variable(closure_variables[j],
                                                               shared[j])],
                                      parameter_variables,
                                      getExportScopeCode(FALSE)).direct_call_arg_spec
                      IN  /\ Len(spec) = Len(call.args)
                          /\ \A i \in 1..n :
                                 spec[i] = <<"PyObject *_python_par_",
                                             parameter_variables[i].name>>
                          /\ \A j \in 1..m :
                                 /\ spec[n + j][2] = closure_variables[j]
                                 /\ spec[n + j][1] = (IF shared[j]
                                                      THEN "PyCellObject *"
                                                      ELSE "PyObject *&")

DirectCallArgumentOrderWitness ==
    /\ IsDirectCall
    /\ Len(op.consumed) = 2
    /\ op.consumed[1] # op.consumed[2]
    /\ Len(op.body.closure_variables) = 2
    /\ \E i \in LinesOf("direct_call") : Len(codes[i].args) = 4

\* The additions of a name to the cleanup ledger in the last operation.
Adds(name) ==
    { i \in DOMAIN cleanup_log :
        cleanup_log[i].ev = "add" /\ cleanup_log[i].name = name }

\* C13: getDirectFunctionCallCode emits the error exit check of the result iff
\* needs_check, after the call line, and adds to_name to the cleanup ledger
\* only once the check has been generated: to_name is no cleanup obligation
\* while the check is generated and is one when the operation returns.
DirectCallResultHandling ==
    IsDirectCall =>
        /\ Cardinality(LinesOf("direct_call")) = 1
        /\ LET call == CHOOSE i \in LinesOf("direct_call") : TRUE
               checks == LinesOf("error_exit")
           IN  /\ Cardinality(checks) = (IF op.inputs.needs_check THEN 1 ELSE 0)
               /\ \A e \in checks : e > call /\ codes[e].to = op.to_name
               /\ op.to_name \notin op.entry
               /\ Cardinality(Adds(op.to_name)) = 1
               /\ \A i \in Adds(op.to_name) :
                      /\ ~cleanup_log[i].present
                      /\ cleanup_log[i].at >= call
                      /\ \A e \in checks : cleanup_log[i].at >= e
                      /\ i = Len(cleanup_log)
               /\ op.to_name \in cleanup_names

DirectCallResultHandlingWitness ==
    /\ IsDirectCall
    /\ op.inputs.needs_check
    /\ LinesOf("error_exit") # {}
    /\ op.to_name \in cleanup_names

\* The last m entries of a parameter list: its closure parameters.
ClosureParameters(decl, m) == SubSeq(decl, Len(decl) - m + 1, Len(decl))

\* C14: for every callable that needs a direct call, function or generator,
\* the forward declaration of generateFunctionDeclCode and the definition of
\* getFunctionCode or getGeneratorFunctionCode have the same number of closure
\* parameters, of the same kind at each position: PyCellObject * for a
\* technically shared variable, PyObject *& otherwise.
DeclarationDefinitionAgreement ==
    \A k \in DOMAIN composed :
        (/\ composed[k].fn \in {"getFunctionCode", "getGeneratorFunctionCode"}
         /\ composed[k].context.for_direct_call) =>
            LET closure_variables == composed[k].body.closure_variables
                m == Len(closure_variables)
                definition == composed[k].result.parameter_objects_decl
            IN  \A cross_module \in BOOLEAN :
                    LET declaration ==
                            functionDecl([body |-> composed[k].body,
                                          is_generator_object_body |-> FALSE,
                                          needs_direct_call |-> TRUE,
                                          cross_module |-> cross_module]).direct_call_arg_spec
                    IN  /\ Len(declaration) = Len(definition)
                        /\ ClosureParameters(declaration, m)
                               = ClosureParameters(definition, m)
                        /\ \A j \in 1..m :
                               ClosureParameters(definition, m)[j]
                                   = << IF closure_variables[j].shared
                                        THEN "PyCellObject *" ELSE "PyObject *&",
                                        closure_variables[j].name >>

\* C15: every operation that emits code producing a new owned object into
\* to_name (generateFunctionCreationCode, getDirectFunctionCallCode,
\* generateMakeGeneratorObjectCode, generateCoroutineCreationCode) leaves
\* to_name in the cleanup ledger when it returns.
ResultRegistration ==
    op.name \in {"generateFunctionCreationCode", "getDirectFunctionCallCode",
                 "generateMakeGeneratorObjectCode",
                 "generateCoroutineCreationCode"} =>
        /\ \E i \in DOMAIN codes : codes[i].to = op.to_name
        /\ op.to_name \in cleanup_names

\* C16: in getFunctionCreationCode each of defaults and kw_defaults that is
\* present reaches the constructor as one owned reference whatever the
\* caller held: the temp was in the cleanup ledger and is taken out of it, or
\* it was not and the call takes a reference of its own for it; kw_defaults
\* are treated as defaults are.
ConstructorReferenceAccounting ==
    IsCreation =>
        /\ Cardinality(LinesOf("MAKE_FUNCTION")) = 1
        /\ LET call == CHOOSE i \in LinesOf("MAKE_FUNCTION") : TRUE
               args == codes[call].args
               passed(arg) == \E i \in DOMAIN args : args[i] = arg
               owned(name) ==
                   IF name \in op.entry
                   THEN /\ passed(<<"ref", name>>)
                        /\ Cardinality(Removes(name)) = 1
                        /\ name \notin cleanup_names
                   ELSE /\ passed(<<"INCREASE_REFCOUNT", name>>)
                        /\ Removes(name) = {}
           IN  /\ op.consumed[1] # NoName => owned(op.consumed[1])
               /\ op.consumed[2] # NoName => owned(op.consumed[2])

\* What a slot of a MAKE_FUNCTION call or of a maker declaration stands for:
\* "defaults", "kw_defaults", "annotations" or the name of a closure variable.
CallSlots(args) == [i \in DOMAIN args |-> args[i][2][1]]

DeclSlots(arg_spec) == [i \in DOMAIN arg_spec |-> arg_spec[i][2]]

\* C17: for every request of an identity whose maker code an earlier request
\* registered, the arguments of the emitted MAKE_FUNCTION call have the length
\* and the slot meaning of the registered declaration, also when the request
\* differs from the first in which of defaults, kw_defaults and annotations
\* are present.
CallSiteMatchesConstructor ==
    (IsCreation /\ op.had_helper) =>
        \A i \in LinesOf("MAKE_FUNCTION") :
            CallSlots(codes[i].args)
                = DeclSlots(declaration_codes[op.body.code_name].function_creation_arg_spec)

\* C17 as amended: the arguments of every MAKE_FUNCTION call are those of its
\* own request; they have the length and slot meaning of the registered
\* declaration iff the request has the same of defaults, kw_defaults and
\* annotations present as the request that registered it, which the first
\* request of an identity always has.
CallSiteFollowsRequest ==
    IsCreation =>
        /\ Cardinality(LinesOf("MAKE_FUNCTION")) = 1
        /\ LET call == codes[CHOOSE i \in LinesOf("MAKE_FUNCTION") : TRUE]
               id == op.body.code_name
               declared == DeclSlots(declaration_codes[id].function_creation_arg_spec)
               has(slot) == \E i \in DOMAIN declared : declared[i] = slot
           IN  /\ CallSlots(call.args)
                      = DeclSlots(ExpectedCreationArgs(op.inputs,
                                                       op.body.closure_variables))
               /\ DeclSlots(helper_codes[id].function_creation_args) = declared
               /\ ~op.had_helper => CallSlots(call.args) = declared
               /\ CallSlots(call.args) = declared
                      <=> /\ has("defaults") <=> op.inputs.defaults # "absent"
                          /\ has("kw_defaults") <=> op.inputs.kw_defaults # "absent"
                          /\ has("annotations") <=> op.inputs.annotations # "absent"

CallSiteFollowsRequestWitness ==
    /\ IsCreation
    /\ op.had_helper
    /\ op.inputs.defaults # "absent"
    /\ op.inputs.annotations # "absent"
    /\ \E i \in LinesOf("MAKE_FUNCTION") :
           CallSlots(codes[i].args)
               = DeclSlots(declaration_codes[op.body.code_name].function_creation_arg_spec)

\* C18: getGeneratorFunctionCode emits the "with parameters" declaration iff
\* there is a parameter and the "no parameters" declaration otherwise; with
\* n > 0 parameters it emits the n assignments parameters[0..n-1], slot i from
\* the i-th parameter variable, as a fresh cell (PyCell_NEW1) iff that
\* variable is technically shared and as a plain copy otherwise, and the
\* declared parameter count is n.
GeneratorParameterArray ==
    \A k \in DOMAIN composed :
        composed[k].fn = "getGeneratorFunctionCode" =>
            LET parameter_variables == composed[k].body.parameters
                n == Len(parameter_variables)
                decl == composed[k].result.parameter_decl
            IN  /\ decl.template = "template_genfunc_generator_with_parameters" <=> n > 0
                /\ decl.template = "template_genfunc_generator_no_parameters" <=> n = 0
                /\ decl.count = n
                /\ Len(decl.copy) = n
                /\ \A i \in 1..n :
                       decl.copy[i].text =
                           IF parameter_variables[i].shared
                           THEN "parameters[" \o ToString(i - 1)
                                \o "] = (PyObject *)PyCell_NEW1( _python_par_"
                                \o parameter_variables[i].name \o " );"
                           ELSE "parameters[" \o ToString(i - 1)
                                \o "] = _python_par_"
                                \o parameter_variables[i].name \o ";"

GeneratorParameterArrayWitness ==
    \E k \in DOMAIN composed :
        /\ composed[k].fn = "getGeneratorFunctionCode"
        /\ Len(composed[k].body.parameters) = 2
        /\ composed[k].body.parameters[1].shared
        /\ ~composed[k].body.parameters[2].shared
        /\ composed[k].result.parameter_decl.count = 2
        /\ Len(composed[k].result.parameter_decl.copy) = 2

\* C19: getGeneratorFunctionCode selects the "no closure" declaration iff
\* there is no closure variable, the "own closure" declaration iff there is
\* one and the context is for a direct call, and the "parent closure"
\* declaration iff there is one and the context is not for a direct call; in
\* the own closure case each slot closure[0..n-1] is assigned once, from the
\* i-th closure variable, and incremented once, after its assignment.
GeneratorCaptureArray ==
    \A k \in DOMAIN composed :
        composed[k].fn = "getGeneratorFunctionCode" =>
            LET closure_variables == composed[k].body.closure_variables
                n == Len(closure_variables)
                direct == composed[k].context.for_direct_call
                decl == composed[k].result.closure_decl
                assign(i) == "closure[" \o ToString(i - 1) \o "] = "
                             \o closure_variables[i].name \o ";"
                incref(i) == "Py_INCREF( closure[" \o ToString(i - 1) \o "] );"
            IN  /\ decl.template = "template_genfunc_generator_no_closure" <=> n = 0
                /\ decl.template = "template_genfunc_generator_with_own_closure"
                       <=> (n > 0 /\ direct)
                /\ decl.template = "template_genfunc_generator_with_parent_closure"
                       <=> (n > 0 /\ ~direct)
                /\ decl.count = n
                /\ decl.template # "template_genfunc_generator_with_own_closure"
                       => decl.copy = << >>
                /\ decl.template = "template_genfunc_generator_with_own_closure" =>
                       /\ Len(decl.copy) = 2 * n
                       /\ \A i \in 1..n :
                              /\ Cardinality(Positions(decl.copy, assign(i))) = 1
                              /\ Cardinality(Positions(decl.copy, incref(i))) = 1
                              /\ \A a \in Positions(decl.copy, assign(i)),
                                    b \in Positions(decl.copy, incref(i)) : a < b

GeneratorCaptureArrayWitness ==
    \E k \in DOMAIN composed :
        /\ composed[k].fn = "getGeneratorFunctionCode"
        /\ composed[k].context.for_direct_call
        /\ Len(composed[k].body.closure_variables) = 2
        /\ composed[k].result.closure_decl.template
               = "template_genfunc_generator_with_own_closure"
        /\ Len(composed[k].result.closure_decl.copy) = 4

\* C20: generateFunctionCreationCode called with kw_defaults a constant
\* reference to the empty mapping fails with an AssertionError; no maker code
\* and no declaration have been registered and no MAKE_FUNCTION line has been
\* emitted by then. A function body that does not need creation is rejected
\* by assertion before anything is emitted or allocated. Nothing runs after
\* the abort.
MalformedKwDefaultsAborts ==
    [][/\ (ops' = ops + 1 /\ op'.name # "AssertionError needsCreation"
                          /\ op'.inputs.kw_defaults = "empty_constant") =>
              /\ op'.name = "AssertionError kw_defaults"
              /\ helper_codes' = helper_codes
              /\ declaration_codes' = declaration_codes
              /\ helper_adds' = helper_adds
              /\ decl_adds' = decl_adds
              /\ call_log' = call_log
              /\ \A i \in DOMAIN codes' : codes'[i].kind # "MAKE_FUNCTION"
              /\ op'.to_name \notin cleanup_names'
       /\ op'.name = "AssertionError kw_defaults" =>
              op'.inputs.kw_defaults = "empty_constant"
       /\ (ops' = ops + 1 /\ op'.name = "AssertionError needsCreation") =>
              /\ codes' = << >>
              /\ tmp_names' = tmp_names
              /\ cleanup_names' = cleanup_names
              /\ helper_codes' = helper_codes
              /\ declaration_codes' = declaration_codes
              /\ helper_adds' = helper_adds
              /\ decl_adds' = decl_adds
              /\ call_log' = call_log
       /\ Aborted => UNCHANGED ledger_vars
      ]_vars

\* The abort comes after the defaults were computed and the kw_defaults temp
\* name was allocated.
MalformedKwDefaultsAbortsWitness ==
    /\ op.name = "AssertionError kw_defaults"
    /\ op.inputs.defaults_first
    /\ op.inputs.defaults = "new_ref"
    /\ op.had_helper
    /\ codes # << >>
    /\ tmp_names["kw_defaults"] >= 1
    /\ LinesOf("MAKE_FUNCTION") = {}

====
